---- MODULE Spec2Model ----
(***************************************************************************)
(* A model of utils/inference_utils.py of rpg_e2vid:                       *)
(*   - optimal_crop_size and CropParameters (pad / crop bookkeeping),      *)
(*   - shift_image (the zero-filled shift used when merging channels),     *)
(*   - events_to_voxel_grid and events_to_voxel_grid_pytorch,              *)
(*   - IntensityRescaler (the sliding window of intensity bounds).         *)
(* Float values are kept exact (fractions), so float rounding is not       *)
(* modelled; everything else follows the code line by line.                *)
(***************************************************************************)
EXTENDS Integers, Sequences, FiniteSets, TLC

VARIABLES
    crop,       \* the CropParameters object (its fields), or NoCrop before __init__
    X_in,       \* the 2D array as the caller built it (never written: the reference copy)
    X_arg,      \* the caller's 2D array passed to shift_image
    shift_call, \* the shift_image call: its arguments and its returned array
    events_in,  \* the batch as the caller built it (never written: the reference copy)
    vparams,    \* the arguments num_bins, width, height of the voxel builders
    ev_np,      \* the caller's events array handed to events_to_voxel_grid
    out_np,     \* what events_to_voxel_grid returned (or the exception it raised)
    ev_pt,      \* the caller's events array handed to events_to_voxel_grid_pytorch
    out_pt,     \* what events_to_voxel_grid_pytorch returned
    rescaler,   \* the IntensityRescaler object (its fields), or NoRescaler before __init__
    bounds_log, \* the (rmin, rmax) pairs the calls computed, in call order (never read by the code)
    last_call   \* the last IntensityRescaler call: the entries its medians were taken over

vars == <<crop, X_in, X_arg, shift_call, events_in, vparams, ev_np, out_np, ev_pt, out_pt,
          rescaler, bounds_log, last_call>>

cropVars == <<crop>>
shiftVars == <<X_in, X_arg, shift_call>>
voxelVars == <<events_in, vparams, ev_np, out_np, ev_pt, out_pt>>
rescalerVars == <<rescaler, bounds_log, last_call>>

-----------------------------------------------------------------------------
(* Bounds of the model.                                                    *)

\* true_width and true_height range over 1..MaxSize
MaxSize == 14
\* num_encoders ranges over 0..MaxLevels
MaxLevels == 3
\* safety_margin ranges over 0..MaxMargin
MaxMargin == 2

-----------------------------------------------------------------------------
(* Arithmetic of the math module on exact values.                          *)

\* math.floor(n / d) for d > 0
Floor(n, d) == n \div d

\* math.ceil(n / d) for d > 0
Ceil(n, d) == -((-n) \div d)

RECURSIVE pow2(_)
\* pow(2, k) for an integer k >= 0
pow2(k) == IF k = 0 THEN 1 ELSE 2 * pow2(k - 1)

-----------------------------------------------------------------------------
(* optimal_crop_size and CropParameters.                                   *)

\* a plausible slip: rounding the quotient down instead of up
optimal_crop_size_floor(max_size, max_subsample_factor, safety_margin) ==
    pow2(max_subsample_factor) * Floor(max_size, pow2(max_subsample_factor))
        + safety_margin * pow2(max_subsample_factor)

optimal_crop_size(max_size, max_subsample_factor, safety_margin) ==
    LET crop_size == pow2(max_subsample_factor)
                        * Ceil(max_size, pow2(max_subsample_factor))
    IN  crop_size + safety_margin * pow2(max_subsample_factor)

\* a plausible slip: both halves of the padding rounded down
padding_before_floor(crop_size, size) == Floor(crop_size - size, 2)

\* ceil(0.5 * (crop_size - size)): padding_top and padding_left
padding_before(crop_size, size) == Ceil(crop_size - size, 2)

\* floor(0.5 * (crop_size - size)): padding_bottom and padding_right
padding_after(crop_size, size) == Floor(crop_size - size, 2)

NoCrop ==
    [constructed |-> FALSE, width |-> 0, height |-> 0, num_encoders |-> 0,
     safety_margin |-> 0, width_crop_size |-> 0, height_crop_size |-> 0,
     padding_top |-> 0, padding_bottom |-> 0, padding_left |-> 0, padding_right |-> 0,
     cx |-> 0, cy |-> 0, ix0 |-> 0, ix1 |-> 0, iy0 |-> 0, iy1 |-> 0]

\* the fields CropParameters.__init__ sets (safety_margin is kept as the argument)
CropParameters(width, height, num_encoders, safety_margin) ==
    LET width_crop_size == optimal_crop_size(width, num_encoders, safety_margin)
        height_crop_size == optimal_crop_size(height, num_encoders, safety_margin)
        cx == Floor(width_crop_size, 2)
        cy == Floor(height_crop_size, 2)
    IN  [constructed |-> TRUE, width |-> width, height |-> height,
         num_encoders |-> num_encoders, safety_margin |-> safety_margin,
         width_crop_size |-> width_crop_size, height_crop_size |-> height_crop_size,
         padding_top |-> padding_before(height_crop_size, height),
         padding_bottom |-> padding_after(height_crop_size, height),
         padding_left |-> padding_before(width_crop_size, width),
         padding_right |-> padding_after(width_crop_size, width),
         cx |-> cx, cy |-> cy,
         ix0 |-> cx - Floor(width, 2), ix1 |-> cx + Ceil(width, 2),
         iy0 |-> cy - Floor(height, 2), iy1 |-> cy + Ceil(height, 2)]

\* CropParameters(width, height, num_encoders, safety_margin) is constructed
CropInit(width, height, num_encoders, safety_margin) ==
    /\ ~crop.constructed
    /\ crop' = CropParameters(width, height, num_encoders, safety_margin)
    /\ UNCHANGED <<shiftVars, voxelVars, rescalerVars>>

-----------------------------------------------------------------------------
(* shift_image.                                                            *)

\* an image has 1..MaxRows rows and 1..MaxCols columns
MaxRows == 2
MaxCols == 2
\* the pixel values the arrays are filled with
Pixels == {0, 7}

Rows(X) == Cardinality(DOMAIN X)
Cols(X) == Cardinality(DOMAIN X[0])

\* the 2D arrays of shape (H, W), indexed from 0
Arrays(H, W) == [0 .. H - 1 -> [0 .. W - 1 -> Pixels]]

\* np.roll(X, shift, axis=0): a new array, row r taken from row (r - shift) mod H
np_roll_axis0(X, shift) ==
    [r \in DOMAIN X |-> X[(r - shift) % Rows(X)]]

\* np.roll(X, shift, axis=1): a new array, column c taken from column (c - shift) mod W
np_roll_axis1(X, shift) ==
    [r \in DOMAIN X |-> [c \in DOMAIN X[r] |-> X[r][(c - shift) % Cols(X)]]]

\* the indices i of 0..n-1 the slice [:k] selects, for k > 0
SliceTo(n, k) == {i \in 0 .. n - 1 : i < k}

\* the indices i of 0..n-1 the slice [k:] selects, for k < 0
SliceFrom(n, k) == {i \in 0 .. n - 1 : i >= (IF n + k < 0 THEN 0 ELSE n + k)}

\* X[rows, :] = 0 followed by X[:, cols] = 0, written into X
ZeroFill(X, rows, cols) ==
    [r \in DOMAIN X |-> [c \in DOMAIN X[r] |->
        IF r \in rows \/ c \in cols THEN 0 ELSE X[r][c]]]

\* a plausible slip: the roll alone, without zeroing what wrapped around
shift_image_wrap(X, dx, dy) ==
    [caller |-> X, ret |-> np_roll_axis1(np_roll_axis0(X, dy), dx)]

\* shift_image(X, dx, dy): np.roll returns a copy, so the slice assignments
\* write into the local array and the caller's array keeps its value
shift_image(X, dx, dy) ==
    LET rolled == np_roll_axis1(np_roll_axis0(X, dy), dx)
        rows == IF dy > 0 THEN SliceTo(Rows(X), dy)
                ELSE IF dy < 0 THEN SliceFrom(Rows(X), dy) ELSE {}
        cols == IF dx > 0 THEN SliceTo(Cols(X), dx)
                ELSE IF dx < 0 THEN SliceFrom(Cols(X), dx) ELSE {}
    IN  [caller |-> X, ret |-> ZeroFill(rolled, rows, cols)]

NoShift == [done |-> FALSE, dx |-> 0, dy |-> 0, ret |-> <<>>]

\* a caller evaluates shift_image(X_arg, dx, dy)
ShiftImage(dx, dy) ==
    /\ ~shift_call.done
    /\ LET r == shift_image(X_arg, dx, dy)
       IN  /\ X_arg' = r.caller
           /\ X_in' = X_in
           /\ shift_call' = [done |-> TRUE, dx |-> dx, dy |-> dy, ret |-> r.ret]
    /\ UNCHANGED <<cropVars, voxelVars, rescalerVars>>

-----------------------------------------------------------------------------
(* events_to_voxel_grid and events_to_voxel_grid_pytorch.                  *)
(*                                                                         *)
(* Float values are kept exact. A timestamp is a fraction [n, d] with      *)
(* d > 0; the timestamps of a caller's batch are whole ticks, d = 1. All   *)
(* normalized timestamps of one call share the denominator |deltaT|, so    *)
(* dts, vals_left, vals_right and the cells of the grid are integers in    *)
(* units of 1 / |deltaT|; a returned grid carries that unit. An events     *)
(* array is a sequence of rows [t, x, y, p]. A voxel grid is the flat      *)
(* array of num_bins * height * width cells, indexed from 0, which the     *)
(* builders reshape to (num_bins, height, width).                          *)

Abs(a) == IF a < 0 THEN -a ELSE a

Ticks(s) == [n |-> s, d |-> 1]

\* torch.floor(a) as an integer
FloorInt(a) == a.n \div a.d

\* a.astype(np.int): the fractional part is dropped, rounding toward zero
TruncInt(a) == IF a.n >= 0 THEN a.n \div a.d ELSE -((-a.n) \div a.d)

\* a batch holds 1..MaxEvents events
MaxEvents == 3
\* raw timestamps range over 0..MaxStamp
MaxStamp == 2
\* num_bins ranges over 1..MaxBins
MaxBins == 2
\* the sensor sizes <<width, height>> the batches are drawn for
Sensors == {<<2, 1>>, <<1, 2>>}
\* the raw polarity values of a batch
Polarities == {0, 1}
Devices == {"cpu", "cuda"}

first_stamp(events) == events[1].t
last_stamp(events) == events[Len(events)].t

\* deltaT = last_stamp - first_stamp; if deltaT == 0: deltaT = 1.0 (in ticks)
deltaT(events) ==
    LET d == last_stamp(events).n - first_stamp(events).n
    IN  IF d = 0 THEN 1 ELSE d

\* a plausible slip: the first timestamp is not subtracted
normalized_ts_raw(t, first, dT, num_bins) ==
    LET num == (num_bins - 1) * t.n
    IN  IF dT < 0 THEN [n |-> -num, d |-> -dT] ELSE [n |-> num, d |-> dT]

\* one entry of (num_bins - 1) * (events[:, 0] - first_stamp) / deltaT
normalized_ts(t, first, dT, num_bins) ==
    LET num == (num_bins - 1) * (t.n - first.n)
    IN  IF dT < 0 THEN [n |-> -num, d |-> -dT] ELSE [n |-> num, d |-> dT]

\* one entry of pols after pols[pols == 0] = -1
signed_pol(p) == IF p = 0 THEN -1 ELSE p

\* one entry of dts = ts - tis, in units of 1 / ts.d
frac(ts, tis) == ts.n - tis * ts.d

\* a plausible slip: the two weights exchanged
vals_left_swapped(pol, dts, unit) == pol * dts

\* one entry of vals_left = pols * (1.0 - dts), in units of 1 / unit
vals_left(pol, dts, unit) == pol * (unit - dts)

\* one entry of vals_right = pols * dts, in units of 1 / unit
vals_right(pol, dts, unit) == pol * dts

\* one entry of xs + ys * width + tis * width * height
flat_index(x, y, tis, width, height) == x + y * width + tis * width * height

\* np.zeros((num_bins, height, width)).ravel()
ZeroGrid(num_bins, width, height) ==
    [j \in 0 .. num_bins * height * width - 1 |-> 0]

IndexError == [status |-> "IndexError", unit |-> 1, grid |-> <<>>]
Returned(grid, unit) == [status |-> "ok", unit |-> unit, grid |-> grid]

\* a plausible slip: grid[index] = value, which overwrites the cell instead of
\* adding to it
np_put_at(res, index, value) ==
    LET n == Cardinality(DOMAIN res.grid)
        j == IF index < 0 THEN index + n ELSE index
    IN  IF j < 0 \/ j >= n THEN IndexError
        ELSE [res EXCEPT !.grid[j] = value]

\* one step of np.add.at(grid, index, value): the value is added to the cell, a
\* negative index counts from the end of the array, and an index outside
\* [-n, n) raises IndexError
np_add_at(res, index, value) ==
    LET n == Cardinality(DOMAIN res.grid)
        j == IF index < 0 THEN index + n ELSE index
    IN  IF j < 0 \/ j >= n THEN IndexError
        ELSE [res EXCEPT !.grid[j] = @ + value]

\* one step of grid.index_add_(0, index, value): the value is added to the cell,
\* and an index outside [0, n) is an error
index_add(res, index, value) ==
    IF index < 0 \/ index >= Cardinality(DOMAIN res.grid) THEN IndexError
    ELSE [res EXCEPT !.grid[index] = @ + value]

\* the arguments of a builder that stay fixed while the events are voted
Call(events, num_bins, width, height) ==
    [first |-> first_stamp(events), dT |-> deltaT(events),
     num_bins |-> num_bins, width |-> width, height |-> height]

\* events_to_voxel_grid, one of its two np.add.at calls from event i on:
\* side 0 votes vals_left at bin tis where tis < num_bins, side 1 votes
\* vals_right at bin tis + 1 where tis + 1 < num_bins; tis = ts.astype(np.int)
RECURSIVE vote_numpy(_, _, _, _, _)
vote_numpy(res, events, i, side, c) ==
    IF res.status # "ok" \/ i > Len(events) THEN res
    ELSE LET e == events[i]
             ts == normalized_ts(e.t, c.first, c.dT, c.num_bins)
             tis == TruncInt(ts)
             dts == frac(ts, tis)
             pol == signed_pol(e.p)
             val == IF side = 0 THEN vals_left(pol, dts, ts.d) ELSE vals_right(pol, dts, ts.d)
             valid == tis + side < c.num_bins
             index == flat_index(e.x, e.y, tis + side, c.width, c.height)
         IN  vote_numpy(IF valid THEN np_add_at(res, index, val) ELSE res,
                        events, i + 1, side, c)

\* the caller's array after events[:, 0] = ... and pols[pols == 0] = -1, pols
\* being a view of events[:, 3]
rewritten_numpy(events, c) ==
    [i \in DOMAIN events |->
        [t |-> normalized_ts(events[i].t, c.first, c.dT, c.num_bins),
         x |-> events[i].x, y |-> events[i].y, p |-> signed_pol(events[i].p)]]

\* events_to_voxel_grid(events, num_bins, width, height): the caller's array
\* as the call leaves it, and the grid it returns or the exception it raises
events_to_voxel_grid(events, num_bins, width, height) ==
    LET c == Call(events, num_bins, width, height)
        after_left == vote_numpy(Returned(ZeroGrid(num_bins, width, height), Abs(c.dT)),
                                 events, 1, 0, c)
    IN  [events |-> rewritten_numpy(events, c),
         ret |-> vote_numpy(after_left, events, 1, 1, c)]

\* events_to_voxel_grid_pytorch, one of its two index_add_ calls from event i
\* on: as above with tis = torch.floor(ts) and the further mask tis >= 0
RECURSIVE vote_pytorch(_, _, _, _, _)
vote_pytorch(res, events, i, side, c) ==
    IF res.status # "ok" \/ i > Len(events) THEN res
    ELSE LET e == events[i]
             ts == normalized_ts(e.t, c.first, c.dT, c.num_bins)
             tis == FloorInt(ts)
             dts == frac(ts, tis)
             pol == signed_pol(e.p)
             val == IF side = 0 THEN vals_left(pol, dts, ts.d) ELSE vals_right(pol, dts, ts.d)
             valid == tis + side < c.num_bins /\ tis >= 0
             index == flat_index(e.x, e.y, tis + side, c.width, c.height)
         IN  vote_pytorch(IF valid THEN index_add(res, index, val) ELSE res,
                          events, i + 1, side, c)

\* the caller's float64 array after events_torch[:, 0] = ...: torch.from_numpy
\* shares the caller's memory and .to(device) copies only when the device is
\* not the cpu; pols is the float32 copy made by .float(), so the polarity
\* column is never written
rewritten_pytorch(events, c, device) ==
    IF device = "cpu"
    THEN [i \in DOMAIN events |->
             [events[i] EXCEPT !.t = normalized_ts(events[i].t, c.first, c.dT, c.num_bins)]]
    ELSE events

\* events_to_voxel_grid_pytorch(events, num_bins, width, height, device)
events_to_voxel_grid_pytorch(events, num_bins, width, height, device) ==
    LET c == Call(events, num_bins, width, height)
        after_left == vote_pytorch(Returned(ZeroGrid(num_bins, width, height), Abs(c.dT)),
                                   events, 1, 0, c)
    IN  [events |-> rewritten_pytorch(events, c, device),
         ret |-> vote_pytorch(after_left, events, 1, 1, c)]

\* np.reshape(voxel_grid, (num_bins, height, width))[k, y, x], width varying fastest
Cell(res, k, y, x, width, height) == res.grid[(k * height + y) * width + x]

NotCalled == [status |-> "not called", unit |-> 1, grid |-> <<>>]

\* the caller evaluates events_to_voxel_grid(ev_np, num_bins, width, height)
CallNumpy ==
    /\ out_np.status = "not called"
    /\ LET r == events_to_voxel_grid(ev_np, vparams.num_bins, vparams.width, vparams.height)
       IN  /\ ev_np' = r.events
           /\ out_np' = r.ret
    /\ UNCHANGED <<events_in, vparams, ev_pt, out_pt, cropVars, shiftVars, rescalerVars>>

\* the caller evaluates events_to_voxel_grid_pytorch(ev_pt, num_bins, width, height, device)
CallPytorch(device) ==
    /\ out_pt.status = "not called"
    /\ LET r == events_to_voxel_grid_pytorch(ev_pt, vparams.num_bins, vparams.width,
                                             vparams.height, device)
       IN  /\ ev_pt' = r.events
           /\ out_pt' = r.ret
    /\ UNCHANGED <<events_in, vparams, ev_np, out_np, cropVars, shiftVars, rescalerVars>>

-----------------------------------------------------------------------------
(* IntensityRescaler.                                                      *)
(* robust_min and robust_max are imported from utils/util.py; the pair     *)
(* (rmin, rmax) they compute from an image is an input of each call.       *)
(* intensity_bounds is the deque as a sequence, leftmost entry first.      *)

\* auto_hdr_moving_average_size ranges over 1..MaxWindow
MaxWindow == 2
\* a rescaler is called at most MaxCalls times
MaxCalls == 4
\* the (rmin, rmax) pairs of the images, in hundredths
ImageBounds == {<<0, 100>>, <<10, 90>>, <<20, 60>>}

NoRescaler ==
    [constructed |-> FALSE, auto_hdr |-> FALSE, auto_hdr_moving_average_size |-> 0,
     intensity_bounds |-> <<>>]

NoCall == [done |-> FALSE, over |-> <<>>, mean_rmin |-> 0, mean_rmax |-> 0]

\* IntensityRescaler.__init__: color reconstruction forces auto_hdr, the window
\* size is asserted to be in 1..100, the deque starts empty
IntensityRescaler(auto_hdr, color, auto_hdr_moving_average_size) ==
    [constructed |-> TRUE,
     auto_hdr |-> (IF color THEN TRUE ELSE auto_hdr),
     auto_hdr_moving_average_size |-> auto_hdr_moving_average_size,
     intensity_bounds |-> <<>>]

\* twice np.median(values) of a non-empty sequence of integers: the middle
\* entry of the sorted values, or the mean of the two middle entries
Median2(values) ==
    LET n == Len(values)
        \* the entry at position k (from 0) of the sorted values
        Sorted(k) == CHOOSE v \in {values[i] : i \in 1 .. n} :
                        /\ Cardinality({i \in 1 .. n : values[i] < v}) <= k
                        /\ Cardinality({i \in 1 .. n : values[i] <= v}) > k
    IN  IF n % 2 = 1 THEN 2 * Sorted(n \div 2)
        ELSE Sorted(n \div 2 - 1) + Sorted(n \div 2)

\* the deque after
\*   if len(self.intensity_bounds) > self.auto_hdr_moving_average_size:
\*       self.intensity_bounds.popleft()
popleft_if_full(intensity_bounds, auto_hdr_moving_average_size) ==
    IF Len(intensity_bounds) > auto_hdr_moving_average_size
    THEN Tail(intensity_bounds) ELSE intensity_bounds

\* IntensityRescaler.__init__(options)
RescalerInit(auto_hdr, color, auto_hdr_moving_average_size) ==
    /\ ~rescaler.constructed
    /\ rescaler' = IntensityRescaler(auto_hdr, color, auto_hdr_moving_average_size)
    /\ UNCHANGED <<bounds_log, last_call, cropVars, shiftVars, voxelVars>>

\* IntensityRescaler.__call__(img) with auto_hdr enabled, for an image whose
\* robust bounds are (rmin, rmax): the deque is trimmed, the pair is appended
\* and the medians are taken over the whole deque
RescaleAutoHdr(rmin, rmax) ==
    /\ rescaler.constructed /\ rescaler.auto_hdr
    /\ Len(bounds_log) < MaxCalls
    /\ LET kept == popleft_if_full(rescaler.intensity_bounds,
                                   rescaler.auto_hdr_moving_average_size)
           appended == Append(kept, <<rmin, rmax>>)
       IN  /\ rescaler' = [rescaler EXCEPT !.intensity_bounds = appended]
           /\ last_call' = [done |-> TRUE, over |-> appended,
                            mean_rmin |-> Median2([i \in DOMAIN appended |-> appended[i][1]]),
                            mean_rmax |-> Median2([i \in DOMAIN appended |-> appended[i][2]])]
    /\ bounds_log' = Append(bounds_log, <<rmin, rmax>>)
    /\ UNCHANGED <<cropVars, shiftVars, voxelVars>>

\* IntensityRescaler.__call__(img) with auto_hdr disabled: img is returned as
\* it is and the deque is not touched
RescaleOff ==
    /\ rescaler.constructed /\ ~rescaler.auto_hdr
    /\ ~last_call.done
    /\ last_call' = [NoCall EXCEPT !.done = TRUE]
    /\ UNCHANGED <<rescaler, bounds_log, cropVars, shiftVars, voxelVars>>

-----------------------------------------------------------------------------
(* Specifications: one per group of operations, each started from every    *)
(* input within the bounds.                                                *)

NoParams == [num_bins |-> 0, width |-> 0, height |-> 0]

CropIdle == crop = NoCrop
ShiftIdle == X_in = <<>> /\ X_arg = <<>> /\ shift_call = NoShift
VoxelIdle ==
    /\ events_in = <<>> /\ ev_np = <<>> /\ ev_pt = <<>>
    /\ vparams = NoParams
    /\ out_np = NotCalled /\ out_pt = NotCalled

\* the batches of 1..MaxEvents events inside a width x height sensor, in any
\* order of their timestamps (the builders do not check the order)
Batches(width, height) ==
    UNION {[1 .. n -> [t : {Ticks(s) : s \in 0 .. MaxStamp}, x : 0 .. width - 1,
                       y : 0 .. height - 1, p : Polarities]] : n \in 1 .. MaxEvents}

RescalerIdle == rescaler = NoRescaler /\ bounds_log = <<>> /\ last_call = NoCall

InitCrop == CropIdle /\ ShiftIdle /\ VoxelIdle /\ RescalerIdle

NextCrop ==
    \E width \in 1 .. MaxSize, height \in 1 .. MaxSize,
       num_encoders \in 0 .. MaxLevels, safety_margin \in 0 .. MaxMargin :
        CropInit(width, height, num_encoders, safety_margin)

SpecCrop == InitCrop /\ [][NextCrop]_vars

InitShift ==
    /\ CropIdle /\ VoxelIdle /\ RescalerIdle
    /\ shift_call = NoShift
    /\ \E H \in 1 .. MaxRows, W \in 1 .. MaxCols : X_in \in Arrays(H, W)
    /\ X_arg = X_in

NextShift ==
    \E dx \in -Cols(X_arg) .. Cols(X_arg), dy \in -Rows(X_arg) .. Rows(X_arg) :
        ShiftImage(dx, dy)

SpecShift == InitShift /\ [][NextShift]_vars

InitVoxel ==
    /\ CropIdle /\ ShiftIdle /\ RescalerIdle
    /\ \E num_bins \in 1 .. MaxBins, wh \in Sensors :
        /\ vparams = [num_bins |-> num_bins, width |-> wh[1], height |-> wh[2]]
        /\ events_in \in Batches(wh[1], wh[2])
    /\ ev_np = events_in /\ ev_pt = events_in
    /\ out_np = NotCalled /\ out_pt = NotCalled

\* events_to_voxel_grid alone
NextVoxel == CallNumpy

SpecVoxel == InitVoxel /\ [][NextVoxel]_vars

\* both builders, each on its own copy of the batch
NextBuilders == CallNumpy \/ \E device \in Devices : CallPytorch(device)

SpecBuilders == InitVoxel /\ [][NextBuilders]_vars

InitRescaler == CropIdle /\ ShiftIdle /\ VoxelIdle /\ RescalerIdle

NextRescaler ==
    \/ \E auto_hdr \in BOOLEAN, color \in BOOLEAN, size \in 1 .. MaxWindow :
            RescalerInit(auto_hdr, color, size)
    \/ \E b \in ImageBounds : RescaleAutoHdr(b[1], b[2])
    \/ RescaleOff

SpecRescaler == InitRescaler /\ [][NextRescaler]_vars

-----------------------------------------------------------------------------
(* CropParameters: claims C1, C2, C3 (under SpecCrop).                     *)

\* C1: padding a true-resolution image with the computed pads and taking the
\* crop window returns the image: ix0 = padding_left,
\* ix1 = width_crop_size - padding_right, iy0 = padding_top and
\* iy1 = height_crop_size - padding_bottom, for every width, height > 0,
\* num_encoders >= 0 and safety_margin >= 0.
C1_RoundTrip ==
    crop.constructed =>
        /\ crop.ix0 = crop.padding_left
        /\ crop.ix1 = crop.width_crop_size - crop.padding_right
        /\ crop.iy0 = crop.padding_top
        /\ crop.iy1 = crop.height_crop_size - crop.padding_bottom

\* s is the smallest multiple of 2^levels that is >= size
SmallestMultiple(s, size, levels) ==
    /\ s % pow2(levels) = 0
    /\ s >= size
    /\ \A m \in size .. s - 1 : m % pow2(levels) # 0

\* C2: each crop size is the smallest multiple of 2^num_encoders that is >= the
\* true size, plus safety_margin * 2^num_encoders; so it is a multiple of
\* 2^num_encoders and >= the true size.
C2_OptimalCropSize ==
    crop.constructed =>
        LET margin == crop.safety_margin * pow2(crop.num_encoders)
        IN  /\ SmallestMultiple(crop.width_crop_size - margin, crop.width, crop.num_encoders)
            /\ SmallestMultiple(crop.height_crop_size - margin, crop.height, crop.num_encoders)
            /\ crop.width_crop_size % pow2(crop.num_encoders) = 0
            /\ crop.height_crop_size % pow2(crop.num_encoders) = 0
            /\ crop.width_crop_size >= crop.width
            /\ crop.height_crop_size >= crop.height

\* a size that had to be rounded up, with a safety margin on top
C2_Witness ==
    /\ crop.constructed
    /\ crop.width = 13 /\ crop.num_encoders = 2 /\ crop.safety_margin = 1
    /\ crop.width_crop_size = 20

\* before and after split the difference working - true as ceil and floor of
\* its half
CeilFloorSplit(before, after, working, true) ==
    /\ before + after = working - true
    /\ before >= 0 /\ after >= 0
    /\ before - after \in {0, 1}

\* C3: in each dimension the pads are the ceil (left, top) and the floor
\* (right, bottom) of half of working - true: they add up to working - true,
\* are >= 0 and differ by 0 or 1 with the extra pixel on the left/top; and
\* width = height = 13 with num_encoders = 2 gives crop size 16, pads 2 and 1.
C3_PaddingSplit ==
    crop.constructed =>
        /\ CeilFloorSplit(crop.padding_left, crop.padding_right,
                          crop.width_crop_size, crop.width)
        /\ CeilFloorSplit(crop.padding_top, crop.padding_bottom,
                          crop.height_crop_size, crop.height)
        /\ (crop.width = 13 /\ crop.height = 13 /\ crop.num_encoders = 2
                /\ crop.safety_margin = 0) =>
              /\ crop.width_crop_size = 16 /\ crop.height_crop_size = 16
              /\ crop.padding_left = 2 /\ crop.padding_top = 2
              /\ crop.padding_right = 1 /\ crop.padding_bottom = 1

\* the 13 x 13 example: an odd difference, the extra pixel on the left and top
C3_Witness ==
    /\ crop.constructed
    /\ crop.width = 13 /\ crop.height = 13 /\ crop.num_encoders = 2
    /\ crop.safety_margin = 0
    /\ crop.padding_left = 2 /\ crop.padding_right = 1

-----------------------------------------------------------------------------
(* shift_image: claim C9 (under SpecShift).                                *)

\* C9: shift_image(X, dx, dy) with |dx| <= W and |dy| <= H returns an array of
\* the shape of X whose pixel (r, c) is X[r - dy, c - dx] when that lies
\* inside X and 0 otherwise, and leaves the caller's array unchanged.
C9_ClampedShift ==
    shift_call.done =>
        LET H == Rows(X_in)
            W == Cols(X_in)
            dx == shift_call.dx
            dy == shift_call.dy
        IN  /\ X_arg = X_in
            /\ DOMAIN shift_call.ret = 0 .. H - 1
            /\ \A r \in 0 .. H - 1 :
                /\ DOMAIN shift_call.ret[r] = 0 .. W - 1
                /\ \A c \in 0 .. W - 1 :
                    shift_call.ret[r][c] =
                        IF r - dy \in 0 .. H - 1 /\ c - dx \in 0 .. W - 1
                        THEN X_in[r - dy][c - dx] ELSE 0

\* a one-pixel shift as merge_channels_into_color_image makes it: the pixel
\* that a circular roll would bring in from the opposite edge is 0, and an
\* inner pixel has moved
C9_Witness ==
    /\ shift_call.done
    /\ shift_call.dx = 1 /\ shift_call.dy = 1
    /\ Rows(X_in) = 2 /\ Cols(X_in) = 2
    /\ X_in[1][1] = 7 /\ X_in[0][0] = 7
    /\ shift_call.ret[0][0] = 0 /\ shift_call.ret[1][1] = 7

-----------------------------------------------------------------------------
(* The voxel grid as the specification describes it, stated on the batch   *)
(* as the caller built it (events_in) and in units of 1 / Unit.            *)

NumBins == vparams.num_bins
Width == vparams.width
Height == vparams.height
N == Len(events_in)

\* last - first, or 1 when they are equal
Span ==
    LET d == events_in[N].t.n - events_in[1].t.n
    IN  IF d = 0 THEN 1 ELSE d

Unit == Abs(Span)

\* pos = (num_bins - 1) * (t - first) / deltaT of event i, times Unit
Pos(i) ==
    (IF Span < 0 THEN -1 ELSE 1) * (NumBins - 1) * (events_in[i].t.n - events_in[1].t.n)

\* b = floor(pos) and f = pos - b (times Unit), so that 0 <= f < 1
Bin(i) == Pos(i) \div Unit
Fraction(i) == Pos(i) % Unit

\* the signed polarity of event i
Polarity(i) == IF events_in[i].p = 0 THEN -1 ELSE events_in[i].p

\* the two contributions of event i, times Unit
Left(i) == Polarity(i) * (Unit - Fraction(i))
Right(i) == Polarity(i) * Fraction(i)

LeftInRange(i) == 0 <= Bin(i) /\ Bin(i) < NumBins
RightInRange(i) == 0 <= Bin(i) /\ Bin(i) + 1 < NumBins

\* what event i adds to cell (k, y, x)
Contribution(i, k, y, x) ==
    IF events_in[i].x = x /\ events_in[i].y = y
    THEN (IF LeftInRange(i) /\ Bin(i) = k THEN Left(i) ELSE 0)
            + (IF RightInRange(i) /\ Bin(i) + 1 = k THEN Right(i) ELSE 0)
    ELSE 0

RECURSIVE ExpectedCell(_, _, _, _)
\* the sum of the contributions of events 1..i to cell (k, y, x)
ExpectedCell(i, k, y, x) ==
    IF i = 0 THEN 0 ELSE Contribution(i, k, y, x) + ExpectedCell(i - 1, k, y, x)

\* the grid res has the shape (num_bins, height, width) and holds, cell by
\* cell, the sum of the in-range contributions of the batch
IsExpectedGrid(res) ==
    /\ res.status = "ok"
    /\ res.unit = Unit
    /\ DOMAIN res.grid = 0 .. NumBins * Height * Width - 1
    /\ \A k \in 0 .. NumBins - 1, y \in 0 .. Height - 1, x \in 0 .. Width - 1 :
        Cell(res, k, y, x, Width, Height) = ExpectedCell(N, k, y, x)

\* every timestamp lies between the first and the last event's
StampsInRange ==
    \A i \in 1 .. N :
        \/ events_in[1].t.n <= events_in[i].t.n /\ events_in[i].t.n <= events_in[N].t.n
        \/ events_in[N].t.n <= events_in[i].t.n /\ events_in[i].t.n <= events_in[1].t.n

NumpyCalled == out_np.status # "not called"
PytorchCalled == out_pt.status # "not called"

RECURSIVE SumCells(_, _)
\* the sum of the cells 0..j-1 of a flat grid
SumCells(grid, j) == IF j = 0 THEN 0 ELSE grid[j - 1] + SumCells(grid, j - 1)

-----------------------------------------------------------------------------
(* events_to_voxel_grid: claims C4 to C8 (under SpecVoxel).                *)

\* C4: for a batch whose timestamps lie between the first and the last
\* event's, events_to_voxel_grid returns a grid of shape
\* (num_bins, height, width) whose cell (k, y, x) is the sum over the events at
\* (x, y) of polarity * (1 - f) for those with b = k and polarity * f for those
\* with b + 1 = k: contributions add up and reach no other cell.
C4_VoxelGrid ==
    (NumpyCalled /\ StampsInRange) => IsExpectedGrid(out_np)

\* two events vote into the same cell, and one event lies strictly between two
\* bins
C4_Witness ==
    /\ NumpyCalled /\ StampsInRange
    /\ out_np.status = "ok"
    /\ \E i, j \in 1 .. N :
        /\ i # j
        /\ events_in[i].x = events_in[j].x /\ events_in[i].y = events_in[j].y
        /\ Bin(i) = Bin(j) /\ Polarity(i) = Polarity(j)
    /\ \E i \in 1 .. N : Fraction(i) > 0 /\ Polarity(i) = -1

\* the bin of event i as events_to_voxel_grid computes it (astype drops the
\* fractional part) and the rest dts = ts - tis, times Unit
BinChecked(i) == IF Pos(i) >= 0 THEN Pos(i) \div Unit ELSE -((-Pos(i)) \div Unit)
RestChecked(i) == Pos(i) - BinChecked(i) * Unit

RECURSIVE SurvivingMass(_)
\* the left and right contributions of events 1..i that pass the checks
\* tis < num_bins and tis + 1 < num_bins of events_to_voxel_grid
SurvivingMass(i) ==
    IF i = 0 THEN 0
    ELSE (IF BinChecked(i) < NumBins THEN Polarity(i) * (Unit - RestChecked(i)) ELSE 0)
            + (IF BinChecked(i) + 1 < NumBins THEN Polarity(i) * RestChecked(i) ELSE 0)
            + SurvivingMass(i - 1)

RECURSIVE SumPolarities(_)
SumPolarities(i) == IF i = 0 THEN 0 ELSE Polarity(i) + SumPolarities(i - 1)

AllBinsInRange == \A i \in 1 .. N : LeftInRange(i) /\ RightInRange(i)

C5_WitnessDropped ==
    /\ out_np.status = "ok"
    /\ \E i \in 1 .. N : BinChecked(i) >= NumBins /\ Polarity(i) = 1
    /\ SumCells(out_np.grid, NumBins * Height * Width) < 0

AllMassInBinZero(res) ==
    /\ res.status = "ok"
    /\ res.unit = 1
    /\ \A k \in 1 .. NumBins - 1, y \in 0 .. Height - 1, x \in 0 .. Width - 1 :
        Cell(res, k, y, x, Width, Height) = 0

\* C6 as stated: for every batch whose first and last events have equal
\* timestamps, events_to_voxel_grid takes deltaT = 1, raises nothing and
\* returns a grid whose cells (k, y, x) with k >= 1 are all 0.
C6_DegenerateBatch ==
    (NumpyCalled /\ events_in[1].t = events_in[N].t) => AllMassInBinZero(out_np)

AllStampsEqual == \A i \in 1 .. N : events_in[i].t = events_in[1].t

\* C6 amended: for every batch all of whose events have the same timestamp,
\* events_to_voxel_grid takes deltaT = 1, raises nothing and returns a grid
\* whose cells (k, y, x) with k >= 1 are all 0.
C6_DegenerateBatchAmended ==
    (NumpyCalled /\ AllStampsEqual) => AllMassInBinZero(out_np)

\* several events at one timestamp later than 0, more than one bin, and their
\* mass in bin 0
C6_Witness ==
    /\ NumpyCalled /\ AllStampsEqual
    /\ N >= 2 /\ NumBins >= 2 /\ events_in[1].t.n > 0
    /\ out_np.status = "ok"
    /\ \E y \in 0 .. Height - 1, x \in 0 .. Width - 1 :
        Cell(out_np, 0, y, x, Width, Height) = 2

\* C7: a contribution is applied only if its bin is inside [0, num_bins) (and
\* b >= 0); an event outside [first, last] is dropped on that side without an
\* error and without changing any cell, so the grid is the grid of the
\* remaining contributions.
C7_RangeClipping ==
    NumpyCalled => IsExpectedGrid(out_np)

\* the value of a timestamp entry is unchanged
SameValue(a, b) == a.n * b.d = b.n * a.d

\* C8: after events_to_voxel_grid returns, every row of the caller's events
\* array has the value it had before the call.
C8_NoSideEffect ==
    NumpyCalled =>
        /\ Len(ev_np) = N
        /\ \A i \in 1 .. N :
            /\ SameValue(ev_np[i].t, events_in[i].t)
            /\ ev_np[i].x = events_in[i].x
            /\ ev_np[i].y = events_in[i].y
            /\ ev_np[i].p = events_in[i].p

-----------------------------------------------------------------------------
(* The two builders: claim C10 (under SpecBuilders).                       *)

\* C10: applied to equal inputs, events_to_voxel_grid and
\* events_to_voxel_grid_pytorch either both fail or return grids that are
\* equal cell by cell.
C10_BuildersAgree ==
    (NumpyCalled /\ PytorchCalled) =>
        /\ out_np.status = out_pt.status
        /\ out_np.status = "ok" =>
            /\ out_np.unit = out_pt.unit
            /\ out_np.grid = out_pt.grid

-----------------------------------------------------------------------------
(* IntensityRescaler: claim C11 (under SpecRescaler).                      *)

\* the last n entries of a sequence
LastEntries(seq, n) == SubSeq(seq, Len(seq) - n + 1, Len(seq))

\* C11: with auto_hdr enabled, after any sequence of calls intensity_bounds
\* holds at most auto_hdr_moving_average_size entries, these are the bounds of
\* the most recent calls in call order, and each median is taken over at most
\* auto_hdr_moving_average_size entries.
C11_BoundedFifo ==
    (rescaler.constructed /\ rescaler.auto_hdr) =>
        /\ Len(rescaler.intensity_bounds) <= rescaler.auto_hdr_moving_average_size
        /\ Len(rescaler.intensity_bounds) <= Len(bounds_log)
        /\ rescaler.intensity_bounds
              = LastEntries(bounds_log, Len(rescaler.intensity_bounds))
        /\ Len(last_call.over) <= rescaler.auto_hdr_moving_average_size

\* what the deque does hold: at most auto_hdr_moving_average_size + 1 entries,
\* the bounds of the most recent calls in call order, all of them used by the
\* medians
C11_WindowPlusOne ==
    (rescaler.constructed /\ rescaler.auto_hdr) =>
        /\ Len(rescaler.intensity_bounds) <= rescaler.auto_hdr_moving_average_size + 1
        /\ Len(rescaler.intensity_bounds) <= Len(bounds_log)
        /\ rescaler.intensity_bounds
              = LastEntries(bounds_log, Len(rescaler.intensity_bounds))
        /\ last_call.done => last_call.over = rescaler.intensity_bounds

\* the window has slid: more calls than the deque holds
C11_Slid ==
    /\ rescaler.constructed /\ rescaler.auto_hdr
    /\ Len(bounds_log) = MaxCalls
    /\ Len(rescaler.intensity_bounds) = rescaler.auto_hdr_moving_average_size + 1
    /\ Len(rescaler.intensity_bounds) < Len(bounds_log)

====
